---- MODULE Spec2Model ----
(***************************************************************************)
(* Model of main.go of go-metadata-server: the concurrent recursive walk   *)
(* filepathToJSONMetadata (one goroutine per directory entry, an           *)
(* unbuffered collection channel per directory, a sync.WaitGroup and a     *)
(* wait-and-close goroutine) and the HTTP handler fileMetadataHandler      *)
(* that starts the walk at the root and writes the response.               *)
(*                                                                         *)
(* A task is one invocation of filepathToJSONMetadata.  Tasks are named by *)
(* the position at which they were spawned: << >> is the invocation the    *)
(* handler starts, t \o <<k>> is the goroutine started by the k-th         *)
(* iteration of the spawn loop of task t.                                  *)
(***************************************************************************)
EXTENDS Integers, Sequences, FiniteSets, TLC

VARIABLES fs, task, handler, prev

vars == <<fs, task, handler, prev>>

(* ------------------------------ bounds -------------------------------- *)

\* Largest number of filesystem nodes (files and directories) of a tree.
MaxNodes == 3

\* Largest number of nodes of a tree at which an operation fails.
MaxFaults == 2

\* Number of requests served one after the other under SpecRepeat.
MaxRequests == 2

(* ---------------------------- filesystem ------------------------------ *)

\* Base names of the nodes; os.ReadDir returns entries sorted by filename,
\* so the enumeration order of a directory is the order of the node numbers.
BaseName == <<"n1", "n2", "n3", "n4", "n5", "n6", "n7", "n8">>

NoFault == [op |-> "", errno |-> ""]

\* The failures os.Open, os.Stat, os.ReadDir and io.Copy can report.
Faults ==
    { [op |-> "open",    errno |-> "ENOENT"],
      [op |-> "open",    errno |-> "EACCES"],
      [op |-> "stat",    errno |-> "ENOENT"],
      [op |-> "readdir", errno |-> "EIO"],
      [op |-> "read",    errno |-> "EIO"] }

\* The trees of n nodes: node 1 is the root, the parent of a node has a
\* smaller number.
Parents(n) ==
    { p \in [1..n -> 0..(n - 1)] :
        p[1] = 0 /\ \A c \in 2..n : p[c] \in 1..(c - 1) }

\* A node with entries is a directory.
Kinds(n, p) ==
    { k \in [1..n -> {"file", "dir"}] :
        \A c \in 2..n : k[p[c]] = "dir" }

\* At most MaxFaults nodes fail.  A directory fails to enumerate and a file
\* to be read.  What a failing node holds is never looked at: the model
\* gives it no entries, and the kind "file" when it fails before
\* fileInfo.IsDir() is asked.
FaultMaps(n, p, k) ==
    { fl \in [1..n -> Faults \cup {NoFault}] :
        /\ Cardinality({c \in 1..n : fl[c] # NoFault}) <= MaxFaults
        /\ \A c \in 2..n : fl[p[c]] = NoFault
        /\ \A c \in 1..n :
             /\ fl[c].op = "readdir" => k[c] = "dir"
             /\ fl[c].op = "read" => k[c] = "file"
             /\ fl[c].op \in {"open", "stat"} => k[c] = "file" }

FileSystems ==
    UNION { UNION { UNION { { [n |-> n, parent |-> p, kind |-> k, fault |-> fl] :
                              fl \in FaultMaps(n, p, k) } :
                            k \in Kinds(n, p) } :
                    p \in Parents(n) } :
            n \in 1..MaxNodes }

\* The node the request path names.
RootNode == 1

\* os.ReadDir(path): the entries of directory d, in enumeration order.
RECURSIVE EntriesUpTo(_, _, _)
EntriesUpTo(f, d, c) ==
    IF c = 0 THEN << >>
    ELSE IF f.parent[c] = d THEN Append(EntriesUpTo(f, d, c - 1), c)
    ELSE EntriesUpTo(f, d, c - 1)

ReadDir(d) == EntriesUpTo(fs, d, fs.n)

\* fileInfo.ModTime() of node n.
ModTime(n) == n

\* Bytes of gzip output that do not depend on the content (header, trailer).
GzipOverhead == 23

\* gzipFile(file): the length of the gzip stream of the content of node n,
\* or the read error of io.Copy.
gzipFile(n) ==
    IF fs.fault[n].op = "read"
    THEN [size |-> 0, error |-> [op |-> "read", path |-> n, errno |-> fs.fault[n].errno]]
    ELSE [size |-> GzipOverhead + n, error |-> [op |-> "", path |-> 0, errno |-> ""]]

(* ------------------------------ values -------------------------------- *)

\* The nil error.
NoError == [op |-> "", path |-> 0, errno |-> ""]

PathError(o, n) == [op |-> o, path |-> n, errno |-> fs.fault[n].errno]

\* An os.IsNotExist that recognises no error.
IsNotExistNever(e) == FALSE

\* os.IsNotExist(err)
IsNotExist(e) == e.errno = "ENOENT"

\* A nil slice and a slice made by make([]FileMetadata, 0, n) plus appends.
NilSlice == [isNil |-> TRUE, elems |-> << >>]
MakeSlice(s) == [isNil |-> FALSE, elems |-> s]

\* FileMetadata{}: the zero value.
EmptyMetadata ==
    [Filename |-> "", LastModifiedDate |-> 0, FileSizeGzipped |-> 0, Files |-> NilSlice]

\* The record built for a regular file (main.go lines 107-112).
LeafMetadata(n, size) ==
    [Filename |-> BaseName[n], LastModifiedDate |-> ModTime(n),
     FileSizeGzipped |-> size, Files |-> NilSlice]

\* A directory record that carries a size of its own.
DirMetadataSized(n, subfiles) ==
    [Filename |-> BaseName[n], LastModifiedDate |-> ModTime(n),
     FileSizeGzipped |-> GzipOverhead + n, Files |-> MakeSlice(subfiles)]

\* The record built for a directory (main.go lines 91-97).
DirMetadata(n, subfiles) ==
    [Filename |-> BaseName[n], LastModifiedDate |-> ModTime(n),
     FileSizeGzipped |-> 0, Files |-> MakeSlice(subfiles)]

ErrResult(e) == [result |-> EmptyMetadata, error |-> e]
OkResult(m) == [result |-> m, error |-> NoError]

\* No result yet.
NoResult == [result |-> EmptyMetadata, error |-> NoError]

(* ------------------------------- tasks -------------------------------- *)

Root == << >>

Tasks == DOMAIN task

Parent(t) == SubSeq(t, 1, Len(t) - 1)

IsChild(c, t) == Len(c) = Len(t) + 1 /\ Parent(c) = t

\* The state of a goroutine that has been started and has not run yet.
\*   pc      where the invocation is: "start", "loop" (the spawn loop),
\*           "recv" (for res := range c), "send" (resultChan <- ...),
\*           "done" (the send was received and the goroutine is over)
\*   path    the node the invocation walks (0: not evaluated yet)
\*   handle  the *os.File of os.Open: "none", "open", "closed"
\*   files   the entries of os.ReadDir
\*   i       iterations of the spawn loop begun; the loop variable file is
\*           files[i]
\*   wg      the counter of the sync.WaitGroup
\*   closer  the wait-and-close goroutine: "none", "wait", "done"
\*   closed  whether the collection channel c is closed
\*   subfiles  the records appended so far
\*   out     the value the invocation sends on resultChan
\*   sends   how many sends on resultChan the invocation has begun
\*   recvd   how many results the range over c has received
\*   closes  how many times close(c) has run
NewTask(n) ==
    [pc |-> "start", path |-> n, handle |-> "none", files |-> << >>, i |-> 0,
     wg |-> 0, closer |-> "none", closed |-> FALSE, subfiles |-> << >>,
     out |-> NoResult, sends |-> 0, recvd |-> 0, closes |-> 0]

\* The path a starting invocation is called with.  The handler passes the
\* request path.  A child goroutine evaluates
\* filepath.Join(path, file.Name()) when it runs, with file the loop
\* variable of the spawning loop (its parameter f is not used).  With the
\* one loop variable per loop of Go before 1.22 this is an unsynchronised
\* read of a variable the loop writes: the goroutine gets the entry the loop
\* holds when it runs, its own or a later one.  (With a variable per
\* iteration it gets its own entry, which is the case of the goroutine
\* running before the loop goes on.)
PathArg(t) ==
    IF t = Root THEN task[t].path
    ELSE task[Parent(t)].files[task[Parent(t)].i]

Starting(t) == t \in Tasks /\ task[t].pc = "start"

\* resultChan <- v: the invocation begins a send, which blocks until the
\* other side receives.
Send(r, v) == [r EXCEPT !.pc = "send", !.out = v, !.sends = @ + 1]

\* An invocation that, its error received, goes on to the send at the end
\* of the function instead of returning.
ReturnFallThrough(r) ==
    IF r.out.error # NoError /\ r.sends = 1
    THEN Send(r, OkResult(EmptyMetadata))
    ELSE [r EXCEPT !.pc = "done", !.handle = IF @ = "open" THEN "closed" ELSE @]

\* The invocation returns after its send: the deferred file.Close() runs
\* and the goroutine is over.
Return(r) ==
    [r EXCEPT !.pc = "done", !.handle = IF @ = "open" THEN "closed" ELSE @]

(* ------------------------------- state -------------------------------- *)

\* http.ResponseWriter: the status line (0: not written yet) and the body,
\* the sequence of the texts and JSON documents written to it.
NoResponse == [status |-> 0, body |-> << >>]

Text(msg) == [kind |-> "text", text |-> msg, json |-> EmptyMetadata]
Json(m) == [kind |-> "json", text |-> "", json |-> m]

\* w.WriteHeader(code): the first status written stands.
WriteHeader(w, code) == [w EXCEPT !.status = IF @ = 0 THEN code ELSE @]

\* http.Error(w, msg, code)
HttpError(w, msg, code) ==
    [WriteHeader(w, code) EXCEPT !.body = Append(@, Text(msg))]

\* encoder.Encode(v) when it succeeds: the document is written, with the
\* status 200 unless a status was written before.
Encode(w, m) ==
    [WriteHeader(w, 200) EXCEPT !.body = Append(@, Json(m))]

\* got counts the results received on the request's channel.
IdleHandler ==
    [pc |-> "idle", res |-> NoResult, resp |-> NoResponse, served |-> 0, got |-> 0]

Init ==
    /\ fs \in FileSystems
    /\ task = << >>
    /\ handler = IdleHandler
    /\ prev = NoResult

(* --------------------------- fileMetadataHandler ---------------------- *)

\* os.Getwd fails: 500, and no walk is started.
GetwdFail ==
    /\ handler.pc = "idle"
    /\ handler' = [handler EXCEPT !.pc = "done",
                      !.resp = HttpError(@, "Error getting working directory", 500)]
    /\ UNCHANGED <<fs, task, prev>>

\* c := make(chan result); go filepathToJSONMetadata(path, c)
Request ==
    /\ handler.pc = "idle"
    /\ task' = (Root :> NewTask(RootNode))
    /\ handler' = [handler EXCEPT !.pc = "recv"]
    /\ UNCHANGED <<fs, prev>>

\* The rest of the handler on the Encode of line 139, whose failure (the
\* client has gone, the value cannot be marshalled) writes a 500 message.
EncodeResult(w, m, encodes) ==
    IF encodes THEN Encode(w, m)
    ELSE HttpError(w, "Error generating JSON", 500)

\* What lines 134-135 write for a non-nil error that is not IsNotExist.
ReportError(w) == HttpError(w, "Error reading file ", 500)

\* res := <-c, the rendezvous with the root invocation's send.
HandlerRecv(res) ==
    /\ handler.pc = "recv"
    /\ Root \in Tasks /\ task[Root].pc = "send"
    /\ res = task[Root].out
    /\ task' = [task EXCEPT ![Root] = Return(@)]

\* res.error satisfies os.IsNotExist: 404 and return.
RespondNotFound ==
    \E res \in {task[t].out : t \in Tasks} :
      /\ HandlerRecv(res)
      /\ res.error # NoError
      /\ IsNotExist(res.error)
      /\ handler' = [handler EXCEPT !.pc = "done", !.res = res, !.got = @ + 1,
                        !.resp = HttpError(@, "File not found", 404)]
      /\ UNCHANGED <<fs, prev>>

\* Any other error: 500 is written; there is no return, so the handler goes
\* on to encode res.result.
RespondError ==
    \E res \in {task[t].out : t \in Tasks} :
      /\ HandlerRecv(res)
      /\ res.error # NoError
      /\ ~IsNotExist(res.error)
      /\ \E encodes \in BOOLEAN :
           handler' = [handler EXCEPT !.pc = "done", !.res = res, !.got = @ + 1,
                          !.resp = EncodeResult(ReportError(@), res.result, encodes)]
      /\ UNCHANGED <<fs, prev>>

\* No error: the record is encoded.
RespondRecord ==
    \E res \in {task[t].out : t \in Tasks} :
      /\ HandlerRecv(res)
      /\ res.error = NoError
      /\ \E encodes \in BOOLEAN :
           handler' = [handler EXCEPT !.pc = "done", !.res = res, !.got = @ + 1,
                          !.resp = EncodeResult(@, res.result, encodes)]
      /\ UNCHANGED <<fs, prev>>

\* The server takes the next request: a new channel and a new root
\* invocation.  What the earlier request left behind shares nothing with it
\* and is dropped from the state; prev keeps the earlier walk's result.
NewRequest ==
    /\ handler.pc = "done"
    /\ handler.served + 1 < MaxRequests
    /\ prev' = handler.res
    /\ task' = (Root :> NewTask(RootNode))
    /\ handler' = [IdleHandler EXCEPT !.pc = "recv", !.served = handler.served + 1]
    /\ UNCHANGED fs

(* ------------------------- filepathToJSONMetadata --------------------- *)

\* file, err := os.Open(path) fails.
OpenFail(t) ==
    /\ Starting(t)
    /\ LET n == PathArg(t) IN
         /\ fs.fault[n].op = "open"
         /\ task' = [task EXCEPT ![t] = Send([@ EXCEPT !.path = n],
                                                ErrResult(PathError("open", n)))]
    /\ UNCHANGED <<fs, handler, prev>>

\* os.Stat(path) fails after the open.
StatFail(t) ==
    /\ Starting(t)
    /\ LET n == PathArg(t) IN
         /\ fs.fault[n].op = "stat"
         /\ task' = [task EXCEPT ![t] = Send([@ EXCEPT !.path = n, !.handle = "open"],
                                                ErrResult(PathError("stat", n)))]
    /\ UNCHANGED <<fs, handler, prev>>

\* fileInfo.IsDir() and os.ReadDir(path) fails.
ReadDirFail(t) ==
    /\ Starting(t)
    /\ LET n == PathArg(t) IN
         /\ fs.fault[n].op \notin {"open", "stat"}
         /\ fs.kind[n] = "dir"
         /\ fs.fault[n].op = "readdir"
         /\ task' = [task EXCEPT ![t] = Send([@ EXCEPT !.path = n, !.handle = "open"],
                                                ErrResult(PathError("readdir", n)))]
    /\ UNCHANGED <<fs, handler, prev>>

\* A directory is enumerated: wg and c are made, the spawn loop begins.
WalkDir(t) ==
    /\ Starting(t)
    /\ LET n == PathArg(t) IN
         /\ fs.fault[n].op \notin {"open", "stat"}
         /\ fs.kind[n] = "dir"
         /\ fs.fault[n].op # "readdir"
         /\ task' = [task EXCEPT ![t] = [@ EXCEPT !.path = n, !.pc = "loop",
                                           !.handle = "open",
                                           !.files = ReadDir(n)]]
    /\ UNCHANGED <<fs, handler, prev>>

\* A regular file whose gzipFile fails.
GzipFail(t) ==
    /\ Starting(t)
    /\ LET n == PathArg(t) IN
         /\ fs.fault[n].op \notin {"open", "stat"}
         /\ fs.kind[n] # "dir"
         /\ gzipFile(n).error # NoError
         /\ task' = [task EXCEPT ![t] = Send([@ EXCEPT !.path = n, !.handle = "open"],
                                                ErrResult(gzipFile(n).error))]
    /\ UNCHANGED <<fs, handler, prev>>

\* A regular file: the leaf record.
WalkFile(t) ==
    /\ Starting(t)
    /\ LET n == PathArg(t) IN
         /\ fs.fault[n].op \notin {"open", "stat"}
         /\ fs.kind[n] # "dir"
         /\ gzipFile(n).error = NoError
         /\ task' = [task EXCEPT ![t] = Send([@ EXCEPT !.path = n, !.handle = "open"],
                                                OkResult(LeafMetadata(n, gzipFile(n).size)))]
    /\ UNCHANGED <<fs, handler, prev>>

\* An iteration that starts the goroutine without wg.Add(1).
SpawnChildNoAdd(t) ==
    /\ t \in Tasks /\ task[t].pc = "loop"
    /\ task[t].i < Len(task[t].files)
    /\ task' = (Append(t, task[t].i + 1) :> NewTask(0))
                 @@ [task EXCEPT ![t] = [@ EXCEPT !.i = @ + 1]]
    /\ UNCHANGED <<fs, handler, prev>>

\* One iteration of for _, file := range files: the loop variable takes the
\* next entry, wg.Add(1), and the goroutine is started.
SpawnChild(t) ==
    /\ t \in Tasks /\ task[t].pc = "loop"
    /\ task[t].i < Len(task[t].files)
    /\ task' = (Append(t, task[t].i + 1) :> NewTask(0))
                 @@ [task EXCEPT ![t] = [@ EXCEPT !.i = @ + 1, !.wg = @ + 1]]
    /\ UNCHANGED <<fs, handler, prev>>

\* The collection begins with no goroutine started to close the channel.
StartCollectNoCloser(t) ==
    /\ t \in Tasks /\ task[t].pc = "loop"
    /\ task[t].i = Len(task[t].files)
    /\ task' = [task EXCEPT ![t] = [@ EXCEPT !.pc = "recv"]]
    /\ UNCHANGED <<fs, handler, prev>>

\* The loop is over: go func() { wg.Wait(); close(c) }() and
\* subfiles := make(...); the invocation reaches for res := range c.
StartCollect(t) ==
    /\ t \in Tasks /\ task[t].pc = "loop"
    /\ task[t].i = Len(task[t].files)
    /\ task' = [task EXCEPT ![t] = [@ EXCEPT !.pc = "recv", !.closer = "wait"]]
    /\ UNCHANGED <<fs, handler, prev>>

\* A close(c) that does not wait for the WaitGroup.
CloseWithoutWait(t) ==
    /\ t \in Tasks /\ task[t].closer = "wait"
    /\ task' = [task EXCEPT ![t] = [@ EXCEPT !.closer = "done", !.closed = TRUE,
                                       !.closes = @ + 1]]
    /\ UNCHANGED <<fs, handler, prev>>

\* wg.Wait() returns and close(c).
WaitAndClose(t) ==
    /\ t \in Tasks /\ task[t].closer = "wait"
    /\ task[t].wg = 0
    /\ task' = [task EXCEPT ![t] = [@ EXCEPT !.closer = "done", !.closed = TRUE,
                                       !.closes = @ + 1]]
    /\ UNCHANGED <<fs, handler, prev>>

\* What is left of a child goroutine once its send has been received: the
\* invocation returns, the deferred file.Close() and wg.Done() run, and the
\* goroutine is over.  Nothing but the wg.Done() is seen by another
\* goroutine, so these steps are taken together with the rendezvous.
WgDone(wg) == wg - 1

\* What the collection loop does with a received record (line 88).
Collect(subfiles, m) == Append(subfiles, m)

\* The rendezvous of child c's send on the collection channel with the
\* parent's range: a record is appended and the loop goes on.
CollectRecord(t, c) ==
    /\ t \in Tasks /\ c \in Tasks /\ IsChild(c, t)
    /\ task[t].pc = "recv" /\ ~task[t].closed
    /\ task[c].pc = "send"
    /\ task[c].out.error = NoError
    /\ task' = [task EXCEPT ![t] = [@ EXCEPT !.subfiles = Collect(@, task[c].out.result),
                                       !.recvd = @ + 1,
                                       !.wg = WgDone(@)],
                            ![c] = Return(@)]
    /\ UNCHANGED <<fs, handler, prev>>

\* The rendezvous with an error, the parent reporting an error of its own
\* making in place of the one it received.
CollectErrorWrapped(t, c) ==
    /\ t \in Tasks /\ c \in Tasks /\ IsChild(c, t)
    /\ task[t].pc = "recv" /\ ~task[t].closed
    /\ task[c].pc = "send"
    /\ task[c].out.error # NoError
    /\ task' = [task EXCEPT ![t] = Send([@ EXCEPT !.recvd = @ + 1, !.wg = WgDone(@)],
                    ErrResult([op |-> "walk", path |-> task[t].path, errno |-> "EIO"])),
                            ![c] = Return(@)]
    /\ UNCHANGED <<fs, handler, prev>>

\* The same rendezvous with an error: the parent leaves the loop to send
\* the error on its own resultChan and return (lines 84-87).
CollectError(t, c) ==
    /\ t \in Tasks /\ c \in Tasks /\ IsChild(c, t)
    /\ task[t].pc = "recv" /\ ~task[t].closed
    /\ task[c].pc = "send"
    /\ task[c].out.error # NoError
    /\ task' = [task EXCEPT ![t] = Send([@ EXCEPT !.recvd = @ + 1, !.wg = WgDone(@)],
                                         ErrResult(task[c].out.error)),
                            ![c] = Return(@)]
    /\ UNCHANGED <<fs, handler, prev>>

\* The range ends on the closed channel: the directory record (lines 91-98).
CollectClosed(t) ==
    /\ t \in Tasks
    /\ task[t].pc = "recv" /\ task[t].closed
    /\ task' = [task EXCEPT ![t] =
                    Send(@, OkResult(DirMetadata(task[t].path, task[t].subfiles)))]
    /\ UNCHANGED <<fs, handler, prev>>

(* --------------------------- specifications --------------------------- *)

\* Every position at which a goroutine can be started: the k-th entry of a
\* directory needs k nodes below it.
RECURSIVE PositionsWithin(_)
PositionsWithin(budget) ==
    {Root} \cup UNION { { <<k>> \o p : p \in PositionsWithin(budget - k) } :
                        k \in 1..budget }

AllPositions == PositionsWithin(MaxNodes - 1)

Next ==
    \/ GetwdFail
    \/ Request
    \/ RespondNotFound
    \/ RespondError
    \/ RespondRecord
    \/ \E t \in AllPositions : OpenFail(t)
    \/ \E t \in AllPositions : StatFail(t)
    \/ \E t \in AllPositions : ReadDirFail(t)
    \/ \E t \in AllPositions : WalkDir(t)
    \/ \E t \in AllPositions : GzipFail(t)
    \/ \E t \in AllPositions : WalkFile(t)
    \/ \E t \in AllPositions : SpawnChild(t)
    \/ \E t \in AllPositions : StartCollect(t)
    \/ \E t \in AllPositions : WaitAndClose(t)
    \/ \E t \in AllPositions : \E k \in 1..(MaxNodes - 1) : CollectRecord(t, Append(t, k))
    \/ \E t \in AllPositions : \E k \in 1..(MaxNodes - 1) : CollectError(t, Append(t, k))
    \/ \E t \in AllPositions : CollectClosed(t)

Spec == Init /\ [][Next]_vars

\* The same server taking MaxRequests requests one after the other.
NextRepeat == Next \/ NewRequest

SpecRepeat == Init /\ [][NextRepeat]_vars

\* The scheduler runs a goroutine that can run, and a rendezvous both of
\* whose sides are ready takes place.
FairSpec == Spec /\ WF_vars(Next)

(* ------------------------------ notions ------------------------------- *)

Children(t) == { c \in Tasks : IsChild(c, t) }

\* The invocation has handed its result to its resultChan.
Delivered(t) == task[t].pc = "done"

\* The invocation holds the result it sends, sent or not.
HasResult(t) == task[t].pc \in {"send", "done"}

\* The goroutine of the invocation and its wait-and-close goroutine are over.
Terminated(t) == task[t].pc = "done" /\ task[t].closer \in {"none", "done"}

\* A directory invocation whose walk succeeded.
DirSuccess(t) ==
    /\ HasResult(t)
    /\ task[t].out.error = NoError
    /\ fs.kind[task[t].path] = "dir"

\* The handler has the result of a walk.
Served == handler.pc = "done" /\ Root \in Tasks

FilesOf(t) == task[t].out.result.Files.elems

Range(f) == { f[x] : x \in DOMAIN f }

(* ------------------------------- claims ------------------------------- *)

\* C1: an invocation on a directory hands its result to its resultChan only
\* after every child task it spawned has terminated, also when a child fails.
C1_AllMustFinish ==
    \A t \in Tasks :
        Delivered(t) => \A c \in Children(t) : task[c].pc = "done"

\* C2: every task spawned during a request (child walkers and wait-and-close
\* tasks) terminates: the system never comes to rest with a task blocked on
\* its send or on wg.Wait.
C2_NoLeakedTasks == (\A t \in Tasks : Terminated(t)) \/ ENABLED Next

\* C3: the handler's receive on the root channel eventually obtains a
\* result, whether the walk succeeds or some descendant fails.
C3_RootResult == (handler.pc = "recv") ~> (handler.pc = "done")

\* A walk whose error comes from a descendant of the root has been answered.
C3_Witness ==
    /\ Served
    /\ handler.res.error # NoError
    /\ handler.res.error.path # RootNode

\* C4: the i-th element of Files of a successful directory record is the
\* record of the i-th enumerated entry, in every interleaving.
C4_OutputOrder ==
    \A t \in Tasks :
        DirSuccess(t) =>
            \A x \in 1..Len(FilesOf(t)) :
                /\ x <= Len(task[t].files)
                /\ FilesOf(t)[x].Filename = BaseName[task[t].files[x]]

\* C5: Files of a successful directory record has as many records as the
\* directory has entries, and each entry's base name is the Filename of
\* exactly one of them.
C5_Bijection ==
    \A t \in Tasks :
        DirSuccess(t) =>
            /\ Len(FilesOf(t)) = Len(task[t].files)
            /\ \A e \in Range(task[t].files) :
                 Cardinality({ x \in 1..Len(FilesOf(t)) :
                                 FilesOf(t)[x].Filename = BaseName[e] }) = 1

\* C6: if any node of the walked tree fails, the root result is an error
\* carrying the empty FileMetadata; a populated record is delivered only when
\* every node succeeded.
C6_AllOrNothing ==
    (Served /\ \E n \in 1..fs.n : fs.fault[n] # NoFault) =>
        /\ handler.res.error # NoError
        /\ handler.res.result = EmptyMetadata

\* A record is a leaf (no children) or a directory (size 0, a children
\* sequence), and so are the records below it.
RECURSIVE LeafXorDir(_)
LeafXorDir(m) ==
    /\ \/ m.Files.isNil /\ m.Files.elems = << >>
       \/ ~m.Files.isNil /\ m.FileSizeGzipped = 0
    /\ ~(m.FileSizeGzipped # 0 /\ m.Files.elems # << >>)
    /\ \A x \in 1..Len(m.Files.elems) : LeafXorDir(m.Files.elems[x])

\* C7: every record anywhere in a successful result is a leaf record or a
\* directory record; none has a nonzero FileSizeGzipped and children.
C7_LeafXorDir ==
    /\ \A t \in Tasks :
         (HasResult(t) /\ task[t].out.error = NoError) => LeafXorDir(task[t].out.result)
    /\ handler.res.error = NoError => LeafXorDir(handler.res.result)

\* A successful root record with a directory and a file of nonzero size
\* among its children.
C7_Witness ==
    /\ Served
    /\ handler.res.error = NoError
    /\ \E x, y \in 1..Len(handler.res.result.Files.elems) :
         /\ handler.res.result.Files.elems[x].FileSizeGzipped > 0
         /\ ~handler.res.result.Files.elems[y].Files.isNil

\* C8: two walks of the same tree in which no node fails deliver identical
\* root records, whatever the scheduling.
C8_Determinism ==
    ( /\ Served
      /\ handler.served > 0
      /\ \A n \in 1..fs.n : fs.fault[n] = NoFault
      /\ prev # NoResult
      /\ prev.error = NoError
      /\ handler.res.error = NoError )
    => handler.res.result = prev.result

\* C9: a walk on a path that does not exist delivers a NotFound error with
\* the empty record, spawns no child task, and the handler answers 404 with
\* no serialized record.
C9_NotFound ==
    (Root \in Tasks /\ fs.fault[RootNode].errno = "ENOENT") =>
        /\ Tasks = {Root}
        /\ HasResult(Root) =>
             /\ task[Root].out.error.errno = "ENOENT"
             /\ task[Root].out.error.path = RootNode
             /\ task[Root].out.result = EmptyMetadata
        /\ handler.pc = "done" =>
             /\ handler.res = task[Root].out
             /\ handler.resp = [status |-> 404, body |-> <<Text("File not found")>>]

\* The request for a path that does not exist has been answered.
C9_Witness ==
    /\ Served
    /\ fs.fault[RootNode] = [op |-> "open", errno |-> "ENOENT"]
    /\ handler.resp.status = 404

\* C10: the response is one serialized record (success) or an error response
\* (404 for NotFound, 500 otherwise), never both: with an error in the walk
\* result no record is encoded.
C10_RecordOrError ==
    Served =>
        LET jsons == { x \in 1..Len(handler.resp.body) : handler.resp.body[x].kind = "json" }
            texts == { x \in 1..Len(handler.resp.body) : handler.resp.body[x].kind = "text" }
        IN  /\ ~(jsons # {} /\ texts # {})
            /\ Cardinality(jsons) <= 1
            /\ handler.res.error # NoError =>
                 /\ jsons = {}
                 /\ handler.resp.status = IF IsNotExist(handler.res.error) THEN 404 ELSE 500

\* Node n is node d or lies below it.
RECURSIVE InSubtree(_, _)
InSubtree(n, d) ==
    \/ n = d
    \/ n > 1 /\ InSubtree(fs.parent[n], d)

\* e is the error the filesystem raises at a failing node.
RaisedAt(e) ==
    /\ e.path \in 1..fs.n
    /\ fs.fault[e.path] # NoFault
    /\ fs.fault[e.path] = [op |-> e.op, errno |-> e.errno]

\* The children of t whose error result t has received.
FailedChildren(t) ==
    { c \in Children(t) : Delivered(c) /\ task[c].out.error # NoError }

\* C11: an error a directory invocation delivers is the error of the first
\* failing child result it received, hence the error raised at a failing node
\* of its subtree, never one made up; the root error is the failing node's
\* error when one node fails and one of theirs when several fail.
C11_FirstErrorWins ==
    /\ \A t \in Tasks :
         (HasResult(t) /\ task[t].out.error # NoError) =>
            /\ RaisedAt(task[t].out.error)
            /\ InSubtree(task[t].out.error.path, task[t].path)
            /\ task[t].out.error.path # task[t].path =>
                 /\ Cardinality(FailedChildren(t)) = 1
                 /\ \A c \in FailedChildren(t) : task[c].out.error = task[t].out.error
    /\ (Served /\ handler.res.error # NoError) =>
         /\ RaisedAt(handler.res.error)
         /\ \A n \in 1..fs.n :
              (\A m \in 1..fs.n : fs.fault[m] # NoFault => m = n) =>
                  handler.res.error.path = n

\* The root has answered with the error of one of two failing entries, both
\* of which were walked.
C11_Witness ==
    /\ Served
    /\ handler.res.error # NoError
    /\ \E c, d \in Children(Root) :
         /\ c # d
         /\ HasResult(c) /\ HasResult(d)
         /\ task[c].out.error # NoError /\ task[d].out.error # NoError
         /\ task[c].out.error # task[d].out.error
         /\ handler.res.error = task[c].out.error

\* Invocation t walks a directory that has no entries.
EmptyDirWalk(t) ==
    /\ task[t].pc # "start"
    /\ fs.kind[task[t].path] = "dir"
    /\ fs.fault[task[t].path] = NoFault
    /\ ReadDir(task[t].path) = << >>

\* C12: a walk on a directory with zero entries spawns no child task, its
\* channel is closed without any send, the loop ends, and the invocation
\* delivers a successful directory record with FileSizeGzipped 0 and an
\* empty, present Files sequence; it never blocks: the system does not come
\* to rest before the record is delivered.
C12_EmptyDirectory ==
    \A t \in Tasks :
        EmptyDirWalk(t) =>
            /\ Children(t) = {}
            /\ task[t].subfiles = << >>
            /\ HasResult(t) =>
                 /\ task[t].closed
                 /\ task[t].out = OkResult(DirMetadata(task[t].path, << >>))
                 /\ task[t].out.result.FileSizeGzipped = 0
                 /\ ~task[t].out.result.Files.isNil
                 /\ task[t].out.result.Files.elems = << >>
            /\ Delivered(t) \/ ENABLED Next

\* C13: a directory all of whose children succeed delivers its record only
\* after it has received exactly one result from each child, every child has
\* called wg.Done and the channel has been closed; no task the directory
\* spawned is running then.
C13_SuccessJoin ==
    \A t \in Tasks :
        DirSuccess(t) =>
            /\ task[t].closed /\ task[t].closer = "done"
            /\ task[t].wg = 0
            /\ Cardinality(Children(t)) = Len(task[t].files)
            /\ Len(task[t].subfiles) = Len(task[t].files)
            /\ FilesOf(t) = task[t].subfiles
            /\ \A c \in Children(t) :
                 /\ Terminated(c)
                 /\ task[c].out.error = NoError
                 /\ Cardinality({ x \in 1..Len(task[t].subfiles) :
                                    task[t].subfiles[x] = task[c].out.result })
                      = Cardinality({ d \in Children(t) :
                                        task[d].out.result = task[c].out.result })

\* A directory with two entries has delivered its record.
C13_Witness ==
    \E t \in Tasks :
        /\ DirSuccess(t)
        /\ Delivered(t)
        /\ Len(task[t].files) = 2

\* C14: on every control path an invocation begins exactly one send on its
\* resultChan and never a second; the root channel carries exactly one
\* result per request and a collection channel never more results than the
\* directory has entries.
C14_OneResult ==
    /\ \A t \in Tasks :
         /\ task[t].sends = IF HasResult(t) THEN 1 ELSE 0
         /\ task[t].recvd <= Len(task[t].files)
         /\ task[t].recvd = Cardinality({ c \in Children(t) : Delivered(c) })
    /\ handler.got = IF Served THEN 1 ELSE 0
    /\ Served => Delivered(Root) /\ handler.res = task[Root].out

\* A directory has delivered the error of one child while another child
\* holds the one result it will ever send.
C14_Witness ==
    /\ Served
    /\ \E c, d \in Children(Root) :
         /\ Delivered(c) /\ task[c].out.error # NoError
         /\ task[d].pc = "send" /\ task[d].sends = 1
    /\ task[Root].recvd = 1

\* C15: a directory's collection channel is closed at most once, only by
\* its wait-and-close task, only after every child has completed its send and
\* called wg.Done; no child is left to send on a closed channel, also after
\* the parent has left its collection loop early on an error.
C15_CloseDiscipline ==
    \A t \in Tasks :
        /\ task[t].closes = IF task[t].closed THEN 1 ELSE 0
        /\ task[t].closed =>
             /\ task[t].closer = "done"
             /\ task[t].wg = 0
             /\ Cardinality(Children(t)) = Len(task[t].files)
             /\ \A c \in Children(t) : Delivered(c)
        /\ \A c \in Children(t) : ~Delivered(c) => ~task[t].closed

\* A directory has left its loop on an error while a child is at its send:
\* the channel is open and the wait-and-close task waits.
C15_Witness ==
    \E t \in Tasks :
        /\ HasResult(t) /\ task[t].out.error # NoError
        /\ task[t].closer = "wait" /\ ~task[t].closed
        /\ \E c \in Children(t) : task[c].pc = "send"

\* C16: every handle an invocation opens is closed in the end, also when a
\* sibling or descendant fails: the system does not come to rest with a
\* handle open because its owner is blocked handing off its result; and a
\* handle is closed by the return of the invocation that opened it.
C16_HandlesReleased ==
    /\ \A t \in Tasks : Delivered(t) => task[t].handle # "open"
    /\ (\A t \in Tasks : task[t].handle # "open") \/ ENABLED Next

====
